---- MODULE Spec2Model ----
(***************************************************************************)
(* A model of the floor-plan layout engine of floorplangenerator.py        *)
(* (class StyledPlanGenerator): the recursive partitioner, the wall graph  *)
(* builder, the opening placer, the dimension annotator and the unit       *)
(* formatter.                                                              *)
(*                                                                         *)
(* Randomness.  Every decision of the engine draws from Python's           *)
(* process-wide generator.  The stream of draws is modelled as a cyclic    *)
(* tape of TapeLen quantiles 0..Quantiles-1 fixed in the initial state     *)
(* (the seed); pos counts the draws made so far.  A quantile q stands for  *)
(* the uniform variate q/(Quantiles-1).                                    *)
(*                                                                         *)
(* Coordinates.  Wall, window and dimension-line coordinates are integers  *)
(* in the code (they pass through int()).  Room centres, label boxes and   *)
(* text extents are halves of integers; the model stores them doubled      *)
(* (names ending in 2).                                                    *)
(***************************************************************************)
EXTENDS Integers, Sequences, FiniteSets, TLC

\* ------------------------------------------------------------------ bounds
Quantiles == 3
TapeLen == 4
MaxDepth == 3
MaxPx == 460

\* ------------------------------------------------------ program constants
MinSize == 160
Margin == 150
Tolerance == 5

VARIABLES
    tape, pos,                \* the random source: the draws and how many were made
    pc,                       \* the position of the run
    arg_rect, arg_depth,      \* _recursive_split: the arguments of the outer call
    ret_leaves,               \* _recursive_split: the list returned
    px_length,                \* _format_value: the argument
    ret_text,                 \* _format_value: the string returned
    width, height,            \* self.width, self.height
    base_offset, unit_mode, complexity_depth,   \* the style drawn by __init__
    metric,                   \* the renderer's text metrics for the plan's font
    rooms, walls, windows, dimensions, text_bboxes,
    wall_id_counter, window_id_counter, dim_id_counter,
    doors,                    \* history: the walls add_doors opened, in order
    run, prev                 \* the run's number and the previous run's output

rng == <<tape, pos>>
split_io == <<arg_rect, arg_depth, ret_leaves>>
format_io == <<px_length, ret_text>>
params == <<width, height, metric>>
style == <<base_offset, unit_mode, complexity_depth>>
plan == <<rooms, walls, windows, dimensions, text_bboxes,
          wall_id_counter, window_id_counter, dim_id_counter, doors>>
runs == <<run, prev>>
vars == <<rng, pc, split_io, format_io, params, style, plan, runs>>

\* ------------------------------------------------------- the random source
Tapes == [1..TapeLen -> 0..(Quantiles - 1)]

\* Draw as it would be were the generator's state carried over from the run before
\* instead of being set by the seed.
DrawCarried(p) == tape[((p + run - 1) % TapeLen) + 1]

\* The draw number p (from 0) of the stream.
Draw(p) == tape[(p % TapeLen) + 1]

\* random.randint(a, b), a <= b: the quantile's point of a..b, both ends included.
randint(a, b, p) == a + (Draw(p) * (b - a)) \div (Quantiles - 1)

\* random.random() > tenths/10
random_gt(tenths, p) == Draw(p) * 10 > tenths * (Quantiles - 1)

\* the index (from 0) random.choice(seq) picks in a list of n elements
choice_index(n, p) == randint(0, n - 1, p)

\* ---------------------------------------------------------- Space partitioner
Rect(x, y, w, h) == [x |-> x, y |-> y, w |-> w, h |-> h]

\* int(v * 0.4) and int(v * 0.6) for an integer v >= 0
Int04(v) == (4 * v) \div 10
Int06(v) == (6 * v) \div 10

\* A leaf as returned, with the remaining depth of the call that returned it.
Leaf(rect, depth) == [x |-> rect.x, y |-> rect.y, w |-> rect.w, h |-> rect.h, d |-> depth]

\* split_stops with the depth test off by one
split_stops_early(rect, depth) == depth <= 1 \/ rect.w < MinSize \/ rect.h < MinSize

\* Stop if depth reached OR if room is too small
split_stops(rect, depth) == depth = 0 \/ rect.w < MinSize \/ rect.h < MinSize

\* split_axis with squares cut across their width
split_axis_ties_width(rect) == IF rect.w >= rect.h THEN "w" ELSE "h"

\* the axis the code cuts: "w" when w > h, "h" otherwise
split_axis(rect) == IF rect.w > rect.h THEN "w" ELSE "h"

\* split_second with the second half keeping the whole side
split_second_whole(rect, split) ==
    IF rect.w > rect.h
    THEN Rect(rect.x + split, rect.y, rect.w, rect.h)
    ELSE Rect(rect.x, rect.y + split, rect.w, rect.h)

\* the two halves of rect cut at split along its axis
split_first(rect, split) ==
    IF split_axis(rect) = "w"
    THEN Rect(rect.x, rect.y, split, rect.h)
    ELSE Rect(rect.x, rect.y, rect.w, split)

split_second(rect, split) ==
    IF split_axis(rect) = "w"
    THEN Rect(rect.x + split, rect.y, rect.w - split, rect.h)
    ELSE Rect(rect.x, rect.y + split, rect.w, rect.h - split)

\* the cut drawn for rect by draw p
split_point(rect, p) ==
    IF split_axis(rect) = "w"
    THEN randint(Int04(rect.w), Int06(rect.w), p)
    ELSE randint(Int04(rect.h), Int06(rect.h), p)

\* _recursive_split(rect, depth) with the stream at draw p: the leaves, in the
\* order of the returned list, and the stream's position afterwards.
RECURSIVE recursive_split(_, _, _)
recursive_split(rect, depth, p) ==
    IF split_stops(rect, depth)
    THEN [leaves |-> <<Leaf(rect, depth)>>, pos |-> p]
    ELSE LET split == split_point(rect, p)
             a == recursive_split(split_first(rect, split), depth - 1, p + 1)
             b == recursive_split(split_second(rect, split), depth - 1, a.pos)
         IN  [leaves |-> a.leaves \o b.leaves, pos |-> b.pos]

\* ------------------------------------------------------------- Unit formatter
UnitModes == {"mm", "mm_suffix", "m", "inch", "ft"}

\* The pixel lengths L = 5 (mod 10) up to 1200 for which Python's
\* round(L/100, 1) rounds the binary double L/100 upwards.
HalfRoundsUp ==
    {5, 45, 55, 65, 75, 105, 135, 155, 175, 185, 235, 245, 275, 285, 295, 335,
     345, 375, 385, 395, 415, 445, 465, 475, 495, 515, 545, 565, 575, 595, 615,
     645, 665, 675, 695, 715, 745, 765, 775, 795, 805, 815, 855, 865, 875, 905,
     915, 955, 965, 975, 1005, 1015, 1055, 1065, 1075, 1105, 1115, 1155, 1165,
     1175}

\* round(mm_val / 1000, 1), in tenths of a metre
round_tenths(mm_val) ==
    LET t == mm_val \div 100
        r == mm_val % 100
    IN  IF r > 50 \/ (r = 50 /\ (mm_val \div 10) \in HalfRoundsUp) THEN t + 1 ELSE t

\* total_inches rounding to the nearest inch instead of truncating
total_inches_rounded(mm_val) == (mm_val * 5 + 63) \div 127

\* int(mm_val / 25.4)
total_inches(mm_val) == (mm_val * 5) \div 127

\* _format_value(px_length) under unit mode mode, for an integer px_length >= 0
format_value(len, mode) ==
    LET mm_val == len * 10
    IN  CASE mode = "mm" -> ToString(mm_val)
          [] mode = "mm_suffix" -> ToString(mm_val) \o " mm"
          [] mode = "m" ->
                LET t == round_tenths(mm_val)
                IN  ToString(t \div 10) \o "." \o ToString(t % 10) \o "m"
          [] mode = "inch" -> ToString(total_inches(mm_val)) \o "\""
          [] mode = "ft" ->
                LET ft == total_inches(mm_val) \div 12
                    inch == total_inches(mm_val) % 12
                IN  ToString(ft) \o "'" \o ToString(inch) \o "\""
          [] OTHER -> ToString(mm_val)

\* ------------------------------------------------------------ small helpers
Abs(v) == IF v < 0 THEN -v ELSE v
Min(a, b) == IF a < b THEN a ELSE b
Max(a, b) == IF a > b THEN a ELSE b

\* The one element of a singleton set.  TLC passes operator arguments unevaluated;
\* a loop written Only({loop(s, i + 1) : s \in {step(st, i)}}) has each
\* iteration's state evaluated before the next iteration begins.
Only(S) == CHOOSE v \in S : TRUE

\* int(v2 / 2): Python's int() truncates towards zero
Trunc2(v2) == IF v2 >= 0 THEN v2 \div 2 ELSE -((-v2) \div 2)

\* math.hypot(dx, dy) of an axis-parallel segment (every segment of the engine is)
hypot(dx, dy) == IF dx = 0 THEN Abs(dy) ELSE Abs(dx)

\* ------------------------------------------------------- Wall graph builder
\* normalize without the endpoint swap
normalize_never(c) == c

\* the endpoints after line 126: swapped when x1 > x2 or y1 > y2
normalize(c) == IF c[1] > c[3] \/ c[2] > c[4] THEN <<c[3], c[4], c[1], c[2]>> ELSE c

\* line 129: all four coordinates within the tolerance
same_wall(wc, c) ==
    /\ Abs(wc[1] - c[1]) < Tolerance /\ Abs(wc[3] - c[3]) < Tolerance
    /\ Abs(wc[2] - c[2]) < Tolerance /\ Abs(wc[4] - c[4]) < Tolerance

\* matches without the duplicate scan
matches_none(ws, c) == {}

\* the indices of the walls of ws that match c
matches(ws, c) == {i \in 1..Len(ws) : same_wall(ws[i].coords, c)}

FirstOf(S) == CHOOSE i \in S : \A j \in S : i <= j

\* A plan's wall list with its identifier counter.
WallState(ws, next_id) == [walls |-> ws, next_id |-> next_id]

\* _add_wall(x1, y1, x2, y2, rcx, rcy) on the wall state st; rc2 is the doubled
\* room centre.
add_wall(st, x1, y1, x2, y2, rc2) ==
    LET c == normalize(<<x1, y1, x2, y2>>)
        m == matches(st.walls, c)
    IN  IF m # {}
        THEN WallState([st.walls EXCEPT ![FirstOf(m)].is_shared = TRUE], st.next_id)
        ELSE WallState(
                Append(st.walls, [id |-> st.next_id, coords |-> c, is_shared |-> FALSE,
                                  has_opening |-> FALSE, room_center2 |-> rc2]),
                st.next_id + 1)

\* lines 106-111 for one room: its four edges in the code's order
add_room_walls(st, r) ==
    LET rc2 == <<2 * r.x + r.w, 2 * r.y + r.h>>
        s1 == add_wall(st, r.x, r.y, r.x + r.w, r.y, rc2)
        s2 == add_wall(s1, r.x + r.w, r.y, r.x + r.w, r.y + r.h, rc2)
        s3 == add_wall(s2, r.x + r.w, r.y + r.h, r.x, r.y + r.h, rc2)
    IN  add_wall(s3, r.x, r.y + r.h, r.x, r.y, rc2)

\* lines 106-111: the loop over the rooms rs, from room i
RECURSIVE add_all_walls(_, _, _)
add_all_walls(st, rs, i) ==
    IF i > Len(rs) THEN st
    ELSE Only({add_all_walls(s, rs, i + 1) : s \in {add_room_walls(st, rs[i])}})

\* --------------------------------------------------------------- Room selector
\* the sort key of line 94, times 4: the squared distance of the room's (x, y)
\* from the plan centre (width/2, height/2)
cull_key(r) == (2 * r.x - width) * (2 * r.x - width) + (2 * r.y - height) * (2 * r.y - height)

\* the place of raw[i] after raw.sort(key=..., reverse=True): the sort is stable
sort_rank(raw, i) ==
    Cardinality({j \in 1..Len(raw) : cull_key(raw[j]) > cull_key(raw[i])})
    + Cardinality({j \in 1..(i - 1) : cull_key(raw[j]) = cull_key(raw[i])}) + 1

sort_rooms(raw) ==
    [k \in 1..Len(raw) |-> raw[CHOOSE i \in 1..Len(raw) : sort_rank(raw, i) = k]]

\* lines 92-98: the rooms kept and the stream's position afterwards
select_rooms(raw, p) ==
    IF Len(raw) > 3
    THEN LET num_to_remove == randint(1, Max(1, Int04(Len(raw))), p)
         IN  [rooms |-> SubSeq(sort_rooms(raw), num_to_remove + 1, Len(raw)), pos |-> p + 1]
    ELSE [rooms |-> raw, pos |-> p]

\* the leaves as room rectangles
as_rooms(leaves) == [i \in 1..Len(leaves) |-> Rect(leaves[i].x, leaves[i].y, leaves[i].w, leaves[i].h)]

\* random.shuffle of a list of n elements makes n - 1 draws; room_labels has 8
LabelDraws == 7

\* -------------------------------------------------------------- Opening placer
StandardSizes == <<30, 45, 60, 75, 90>>
HorizEps == 5
WindowClearance == 20
DoorSize == 35
DoorInset == 5

\* abs(y1 - y2) < 5
is_horiz(c) == Abs(c[2] - c[4]) < HorizEps

wall_length(c) == IF is_horiz(c) THEN Abs(c[3] - c[1]) ELSE Abs(c[4] - c[2])

valid_sizes(wall_len) == SelectSeq(StandardSizes, LAMBDA s : s < wall_len - WindowClearance)

\* win_coords after int(): the window centred on the wall's midpoint
window_coords(c, win_len) ==
    IF is_horiz(c)
    THEN <<Trunc2(c[1] + c[3] - win_len), Trunc2(c[2] + c[4]),
           Trunc2(c[1] + c[3] + win_len), Trunc2(c[2] + c[4])>>
    ELSE <<Trunc2(c[1] + c[3]), Trunc2(c[2] + c[4] - win_len),
           Trunc2(c[1] + c[3]), Trunc2(c[2] + c[4] + win_len)>>

\* window_skips without the is_shared test
window_skips_open_only(w) == w.has_opening

\* line 193: the walls add_windows passes over
window_skips(w) == w.is_shared \/ w.has_opening

\* the body of add_windows' loop for wall i, on st = [walls, windows, next_id, pos]
window_step(st, i) ==
    LET w == st.walls[i]
        valid == valid_sizes(wall_length(w.coords))
    IN  IF window_skips(w) THEN st
        ELSE IF ~random_gt(4, st.pos) THEN [st EXCEPT !.pos = @ + 1]
        ELSE IF valid = <<>> THEN [st EXCEPT !.pos = @ + 1]
        ELSE LET win_len == valid[choice_index(Len(valid), st.pos + 1) + 1]
             IN  [walls |-> [st.walls EXCEPT ![i].has_opening = TRUE],
                  windows |-> Append(st.windows,
                                 [id |-> st.next_id, wall_id |-> w.id,
                                  coords |-> window_coords(w.coords, win_len),
                                  length |-> win_len]),
                  next_id |-> st.next_id + 1,
                  pos |-> st.pos + 2]

RECURSIVE add_windows(_, _)
add_windows(st, i) ==
    IF i > Len(st.walls) THEN st
    ELSE Only({add_windows(s, i + 1) : s \in {window_step(st, i)}})

\* random.shuffle(x) from index i (0-based) down to 1, drawing from p
RECURSIVE shuffle_from(_, _, _)
shuffle_from(x, i, p) ==
    IF i < 1 THEN x
    ELSE LET j == randint(0, i, p)
         IN  shuffle_from([x EXCEPT ![i + 1] = x[j + 1], ![j + 1] = x[i + 1]], i - 1, p + 1)

shuffle(x, p) == shuffle_from(x, Len(x) - 1, p)

\* line 218: the doubled midpoint of candidate widx of room r
candidate_mid2(r, widx) ==
    CASE widx = 0 -> <<2 * r.x + r.w, 2 * (r.y + r.h)>>
      [] widx = 1 -> <<2 * (r.x + r.w), 2 * r.y + r.h>>
      [] widx = 2 -> <<2 * r.x + r.w, 2 * r.y>>
      [] OTHER    -> <<2 * r.x, 2 * r.y + r.h>>

\* line 225: the wall's bounding box contains the point
contains_mid(c, m2) ==
    /\ 2 * Min(c[1], c[3]) <= m2[1] /\ m2[1] <= 2 * Max(c[1], c[3])
    /\ 2 * Min(c[2], c[4]) <= m2[2] /\ m2[2] <= 2 * Max(c[2], c[4])

\* door_hits without the has_opening test
door_hits_any(ws, m2) == {i \in 1..Len(ws) : contains_mid(ws[i].coords, m2)}

\* line 226: the walls a door may take at the point m2
door_hits(ws, m2) ==
    {i \in 1..Len(ws) : contains_mid(ws[i].coords, m2) /\ ~ws[i].has_opening}

\* lines 221-227: the first candidate, in the shuffled order, with a wall to take:
\* [wall |-> its index (0: none), idx |-> the candidate's wall_idx]
RECURSIVE find_target(_, _, _, _)
find_target(ws, r, cands, k) ==
    IF k > Len(cands) THEN [wall |-> 0, idx |-> -1]
    ELSE LET hits == door_hits(ws, candidate_mid2(r, cands[k]))
         IN  IF hits # {} THEN [wall |-> FirstOf(hits), idx |-> cands[k]]
             ELSE find_target(ws, r, cands, k + 1)

\* the body of add_doors' loop for room ri, on st = [walls, doors, pos, crashed].
\* random.randint(lo, hi) raises ValueError when lo > hi.
door_step(st, ri) ==
    LET r == rooms[ri]
        cands == shuffle(<<0, 1, 2, 3>>, st.pos + 1)
        p2 == st.pos + 4
        t == find_target(st.walls, r, cands, 1)
        c == st.walls[t.wall].coords
        lo == IF t.idx \in {0, 2} THEN c[1] + DoorInset ELSE c[2] + DoorInset
        hi == IF t.idx \in {0, 2} THEN c[3] - DoorSize - DoorInset
                                  ELSE c[4] - DoorSize - DoorInset
    IN  IF random_gt(6, st.pos) THEN [st EXCEPT !.pos = @ + 1]
        ELSE IF t.wall = 0 THEN [st EXCEPT !.pos = p2]
        ELSE IF lo > hi THEN [st EXCEPT !.pos = p2, !.crashed = TRUE]
        ELSE [walls |-> [st.walls EXCEPT ![t.wall].has_opening = TRUE],
              doors |-> Append(st.doors,
                           [wall_id |-> st.walls[t.wall].id, wall_idx |-> t.idx,
                            room |-> ri, at |-> randint(lo, hi, p2)]),
              pos |-> p2 + 1,
              crashed |-> FALSE]

RECURSIVE add_doors(_, _)
add_doors(st, ri) ==
    IF ri > Len(rooms) \/ st.crashed THEN st
    ELSE Only({add_doors(s, ri + 1) : s \in {door_step(st, ri)}})

\* --------------------------------------------------------- Dimension annotator
Strategies == <<"detailed", "simple", "mixed">>
JitterRange == 5
MinSegment == 5
CharW == 8
CharH == 10
Inflate == 2
Shift == 9

\* line_crosses_wall testing only lines that are not horizontal
line_crosses_wall_vertical_only(x1, y1, x2, y2, w) ==
    LET c == w.coords
    IN  /\ ~(Abs(y1 - y2) < 1) /\ Abs(c[2] - c[4]) < HorizEps
        /\ Min(y1, y2) < c[2] /\ c[2] < Max(y1, y2)
        /\ Min(c[1], c[3]) < x1 /\ x1 < Max(c[1], c[3])

\* _line_crosses_walls((x1, y1), (x2, y2), my_wall_id) against the one wall w
line_crosses_wall(x1, y1, x2, y2, w) ==
    LET c == w.coords
        is_dim_horiz == Abs(y1 - y2) < 1
        is_wall_horiz == Abs(c[2] - c[4]) < HorizEps
    IN  /\ ~(Min(x1, x2) > Max(c[1], c[3]) \/ Max(x1, x2) < Min(c[1], c[3]))
        /\ ~(Min(y1, y2) > Max(c[2], c[4]) \/ Max(y1, y2) < Min(c[2], c[4]))
        /\ IF is_dim_horiz /\ ~is_wall_horiz
           THEN /\ Min(x1, x2) < c[1] /\ c[1] < Max(x1, x2)
                /\ Min(c[2], c[4]) < y1 /\ y1 < Max(c[2], c[4])
           ELSE IF ~is_dim_horiz /\ is_wall_horiz
           THEN /\ Min(y1, y2) < c[2] /\ c[2] < Max(y1, y2)
                /\ Min(c[1], c[3]) < x1 /\ x1 < Max(c[1], c[3])
           ELSE FALSE

line_crosses_walls(x1, y1, x2, y2, my_wall_id) ==
    \E i \in 1..Len(walls) :
        walls[i].id # my_wall_id /\ line_crosses_wall(x1, y1, x2, y2, walls[i])

\* sim_bbox, doubled: the estimate of the label's box about the line's midpoint
sim_bbox2(x1, y1, x2, y2, text_val) ==
    LET text_len_px == Len(text_val) * CharW
    IN  IF Abs(x1 - x2) < 1
        THEN <<x1 + x2 - CharH, y1 + y2 - text_len_px, x1 + x2 + CharH, y1 + y2 + text_len_px>>
        ELSE <<x1 + x2 - text_len_px, y1 + y2 - CharH, x1 + x2 + text_len_px, y1 + y2 + CharH>>

\* _check_collision(new_bbox) against the registry boxes (all doubled)
check_collision(boxes, nb) ==
    \E i \in 1..Len(boxes) :
        /\ nb[1] - 2 * Inflate < boxes[i][3] /\ nb[3] + 2 * Inflate > boxes[i][1]
        /\ nb[2] - 2 * Inflate < boxes[i][4] /\ nb[4] + 2 * Inflate > boxes[i][2]

\* random.choices(['inline', 'above', 'below'], weights=[0.4, 0.3, 0.3])[0]
pos_mode_at(p) ==
    IF Draw(p) * 10 < 4 * (Quantiles - 1) THEN "inline"
    ELSE IF Draw(p) * 10 < 7 * (Quantiles - 1) THEN "above" ELSE "below"

\* lines 337-339: the doubled anchor (tx, ty) of the label
text_anchor2(x1, y1, x2, y2, pos_mode) ==
    LET is_vert == Abs(x1 - x2) < 1
        d == CASE pos_mode = "inline" -> 0
               [] pos_mode = "above" -> IF is_vert THEN -2 * Shift ELSE 2 * Shift
               [] OTHER -> IF is_vert THEN 2 * Shift ELSE -2 * Shift
    IN  IF is_vert THEN <<x1 + x2 + d, y1 + y2>> ELSE <<x1 + x2, y1 + y2 + d>>

\* t.get_window_extent(renderer), doubled: the drawn text's box, centred on its
\* anchor, metric.cw wide per character and metric.ch high, turned when rotated
window_extent2(a2, text_val, is_vert) ==
    IF is_vert
    THEN <<a2[1] - metric.ch, a2[2] - Len(text_val) * metric.cw,
           a2[1] + metric.ch, a2[2] + Len(text_val) * metric.cw>>
    ELSE <<a2[1] - Len(text_val) * metric.cw, a2[2] - metric.ch,
           a2[1] + Len(text_val) * metric.cw, a2[2] + metric.ch>>

\* _draw_dimension_safe on st = [dimensions, text_bboxes, next_id, pos]
draw_dimension_safe(st, x1, y1, x2, y2, text_val, link_type, link_id, owner_wall_id) ==
    IF line_crosses_walls(x1, y1, x2, y2, owner_wall_id) THEN st
    ELSE IF check_collision(st.text_bboxes, sim_bbox2(x1, y1, x2, y2, text_val)) THEN st
    ELSE LET pos_mode == pos_mode_at(st.pos)
             b == window_extent2(text_anchor2(x1, y1, x2, y2, pos_mode), text_val,
                                 Abs(x1 - x2) < 1)
         IN  [dimensions |-> Append(st.dimensions,
                  [id |-> st.next_id, val |-> text_val, position |-> pos_mode,
                   bbox |-> <<Trunc2(b[1]), Trunc2(2 * height - b[4]),
                              Trunc2(b[3]), Trunc2(2 * height - b[2])>>,
                   dim_line |-> <<x1, y1, x2, y2>>,
                   link_type |-> link_type, link_id |-> link_id]),
              text_bboxes |-> Append(st.text_bboxes, b),
              next_id |-> st.next_id + 1,
              pos |-> st.pos + 1]

\* lines 270-272: the index of the first window on wall w (0: none)
attached_window(w) ==
    LET on == {k \in 1..Len(windows) : windows[k].wall_id = w.id}
    IN  IF on = {} THEN 0 ELSE FirstOf(on)

Sort4(a, b, c, d) ==
    LET S == <<a, b, c, d>>
        rank(i) == Cardinality({j \in 1..4 : S[j] < S[i]})
                   + Cardinality({j \in 1..(i - 1) : S[j] = S[i]}) + 1
    IN  [k \in 1..4 |-> S[CHOOSE i \in 1..4 : rank(i) = k]]

\* chain_segments with every segment linked to the wall
chain_segments_wall_links(w, win) ==
    LET c == w.coords
        wc == win.coords
    IN  IF is_horiz(c)
        THEN LET pt == Sort4(c[1], c[3], wc[1], wc[3])
             IN  << <<pt[1], c[2], pt[2], c[2], "wall_id", w.id>>,
                    <<pt[2], c[2], pt[3], c[2], "wall_id", w.id>>,
                    <<pt[3], c[2], pt[4], c[2], "wall_id", w.id>> >>
        ELSE LET pt == Sort4(c[2], c[4], wc[2], wc[4])
             IN  << <<c[1], pt[1], c[1], pt[2], "wall_id", w.id>>,
                    <<c[1], pt[2], c[1], pt[3], "wall_id", w.id>>,
                    <<c[1], pt[3], c[1], pt[4], "wall_id", w.id>> >>

\* lines 292-299: the chain's three segments <<x1, y1, x2, y2, link_type, link_id>>
chain_segments(w, win) ==
    LET c == w.coords
        wc == win.coords
    IN  IF is_horiz(c)
        THEN LET pt == Sort4(c[1], c[3], wc[1], wc[3])
             IN  << <<pt[1], c[2], pt[2], c[2], "wall_id", w.id>>,
                    <<pt[2], c[2], pt[3], c[2], "window_id", win.id>>,
                    <<pt[3], c[2], pt[4], c[2], "wall_id", w.id>> >>
        ELSE LET pt == Sort4(c[2], c[4], wc[2], wc[4])
             IN  << <<c[1], pt[1], c[1], pt[2], "wall_id", w.id>>,
                    <<c[1], pt[2], c[1], pt[3], "window_id", win.id>>,
                    <<c[1], pt[3], c[1], pt[4], "wall_id", w.id>> >>

\* lines 301-306: the chain's segments from segment k on, offset by (dx, dy)
RECURSIVE draw_chain(_, _, _, _, _, _)
draw_chain(st, segs, k, dx, dy, owner) ==
    IF k > Len(segs) THEN st
    ELSE LET s == segs[k]
             length == hypot(s[3] - s[1], s[4] - s[2])
         IN  IF length < MinSegment THEN draw_chain(st, segs, k + 1, dx, dy, owner)
             ELSE Only({draw_chain(n, segs, k + 1, dx, dy, owner) :
                        n \in {draw_dimension_safe(st, s[1] + dx, s[2] + dy, s[3] + dx,
                                    s[4] + dy, format_value(length, unit_mode),
                                    s[5], s[6], owner)}})

\* line 264: the walls add_smart_dimensions passes over
dimension_skips(w) == w.is_shared

\* the body of add_smart_dimensions' loop for wall i under the plan's strategy
dimension_step(st, i, strategy) ==
    LET w == walls[i]
        c == w.coords
        p1 == st.pos + 1
        mixed == strategy = "mixed"
        wall_strat == IF mixed
                      THEN (IF random_gt(5, p1) THEN "detailed" ELSE "simple")
                      ELSE strategy
        p2 == IF mixed THEN p1 + 1 ELSE p1
        win == attached_window(w)
        offset_dist == base_offset + randint(-JitterRange, JitterRange, p2)
        direction == IF is_horiz(c)
                     THEN (IF c[2] + c[4] > w.room_center2[2] THEN 1 ELSE -1)
                     ELSE (IF c[1] + c[3] > w.room_center2[1] THEN 1 ELSE -1)
        base_dx == IF is_horiz(c) THEN 0 ELSE offset_dist * direction
        base_dy == IF is_horiz(c) THEN offset_dist * direction ELSE 0
        s0 == [st EXCEPT !.pos = p2 + 1]
    IN  IF dimension_skips(w) THEN st
        ELSE IF random_gt(7, st.pos) THEN [st EXCEPT !.pos = @ + 1]
        ELSE IF win # 0 /\ wall_strat = "detailed"
        THEN draw_chain(s0, chain_segments(w, windows[win]), 1, base_dx, base_dy, w.id)
        ELSE draw_dimension_safe(s0, c[1] + base_dx, c[2] + base_dy,
                                 c[3] + base_dx, c[4] + base_dy,
                                 format_value(hypot(c[3] - c[1], c[4] - c[2]), unit_mode),
                                 "wall_id", w.id, w.id)

RECURSIVE add_smart_dimensions(_, _, _)
add_smart_dimensions(st, i, strategy) ==
    IF i > Len(walls) THEN st
    ELSE Only({add_smart_dimensions(s, i + 1, strategy) : s \in {dimension_step(st, i, strategy)}})

\* ------------------------------------------------------------- construction
FirstWallId == 100
FirstWindowId == 2000
FirstDimId == 1
InitDraws == 9
MinOffset == 25
MaxOffset == 65

UnitModeChoices == <<"mm", "mm_suffix", "m", "inch", "ft">>
DepthChoices == <<1, 2, 4, 4, 4>>

\* __init__'s draws, in order from draw 0: wall_thickness, wall_color, fill_style,
\* arrow_style, base_offset, font_family, font_size, unit_mode, complexity_depth
init_base_offset == randint(MinOffset, MaxOffset, 4)
init_unit_mode == UnitModeChoices[choice_index(Len(UnitModeChoices), 7) + 1]
init_complexity_depth == DepthChoices[choice_index(Len(DepthChoices), 8) + 1]

\* the plans generated: (width, height)
PlanSizes == {<<900, 900>>, <<620, 460>>, <<340, 340>>}

\* the renderer's metrics tried: the code's own estimate, and a wider face
Metrics == {[cw |-> 8, ch |-> 10], [cw |-> 10, ch |-> 12]}

NoRect == Rect(0, 0, 0, 0)

\* the seed of the specifications that draw nothing
ZeroTape == [i \in 1..TapeLen |-> 0]

\* lines 48-56: the data of a new generator
FreshPlan ==
    /\ rooms = <<>> /\ walls = <<>> /\ windows = <<>> /\ dimensions = <<>>
    /\ text_bboxes = <<>> /\ doors = <<>>
    /\ wall_id_counter = FirstWallId
    /\ window_id_counter = FirstWindowId
    /\ dim_id_counter = FirstDimId

IdleSplit == arg_rect = NoRect /\ arg_depth = 0 /\ ret_leaves = <<>>
IdleFormat == px_length = 0 /\ ret_text = ""
IdleParams == width = 0 /\ height = 0 /\ metric = [cw |-> CharW, ch |-> CharH]
IdleStyle == base_offset = MinOffset /\ complexity_depth = 0
IdleRuns == run = 1 /\ prev = <<>>

\* ------------------------------------------------- the engine: Spec
\* A generator constructed for a plan size under a seed: __init__ has made its draws.
Init ==
    /\ IdleRuns
    /\ tape \in Tapes
    /\ pos = InitDraws
    /\ \E sz \in PlanSizes : width = sz[1] /\ height = sz[2]
    /\ metric \in Metrics
    /\ base_offset = init_base_offset
    /\ unit_mode = init_unit_mode
    /\ complexity_depth = init_complexity_depth
    /\ FreshPlan
    /\ pc = "constructed"
    /\ IdleSplit /\ IdleFormat

\* generate_layout()
GenerateLayout ==
    /\ pc = "constructed"
    /\ LET sp == recursive_split(
                    Rect(Margin, Margin, width - 2 * Margin, height - 2 * Margin),
                    complexity_depth, pos)
           sel == select_rooms(as_rooms(sp.leaves), sp.pos)
           st == add_all_walls(WallState(walls, wall_id_counter), sel.rooms, 1)
       IN  /\ arg_rect' = Rect(Margin, Margin, width - 2 * Margin, height - 2 * Margin)
           /\ arg_depth' = complexity_depth
           /\ ret_leaves' = sp.leaves
           /\ rooms' = sel.rooms
           /\ walls' = st.walls
           /\ wall_id_counter' = st.next_id
           /\ pos' = sel.pos + LabelDraws
    /\ pc' = "layout"
    /\ UNCHANGED <<tape, format_io, params, style, runs,
                   windows, dimensions, text_bboxes, window_id_counter, dim_id_counter, doors>>

\* add_windows()
AddWindows ==
    /\ pc = "layout"
    /\ LET st == add_windows([walls |-> walls, windows |-> windows,
                              next_id |-> window_id_counter, pos |-> pos], 1)
       IN  /\ walls' = st.walls
           /\ windows' = st.windows
           /\ window_id_counter' = st.next_id
           /\ pos' = st.pos
    /\ pc' = "windows"
    /\ UNCHANGED <<tape, split_io, format_io, params, style, runs,
                   rooms, dimensions, text_bboxes, wall_id_counter, dim_id_counter, doors>>

\* add_doors(): it ends, or random.randint raises ValueError and generate() is left
AddDoors ==
    /\ pc = "windows"
    /\ LET st == add_doors([walls |-> walls, doors |-> doors, pos |-> pos,
                            crashed |-> FALSE], 1)
       IN  /\ walls' = st.walls
           /\ doors' = st.doors
           /\ pos' = st.pos
           /\ pc' = IF st.crashed THEN "raised" ELSE "doors"
    /\ UNCHANGED <<tape, split_io, format_io, params, style, runs,
                   rooms, windows, dimensions, text_bboxes,
                   wall_id_counter, window_id_counter, dim_id_counter>>

\* add_smart_dimensions()
AddSmartDimensions ==
    /\ pc = "doors"
    /\ LET strategy == Strategies[choice_index(Len(Strategies), pos) + 1]
           st == add_smart_dimensions(
                    [dimensions |-> dimensions, text_bboxes |-> text_bboxes,
                     next_id |-> dim_id_counter, pos |-> pos + 1], 1, strategy)
       IN  /\ dimensions' = st.dimensions
           /\ text_bboxes' = st.text_bboxes
           /\ dim_id_counter' = st.next_id
           /\ pos' = st.pos
    /\ pc' = "done"
    /\ UNCHANGED <<tape, split_io, format_io, params, style, runs,
                   rooms, walls, windows, wall_id_counter, window_id_counter, doors>>

\* the lists generate() writes out
Output == [walls |-> walls, windows |-> windows, dimensions |-> dimensions, pc |-> pc]

\* The run is over; the generator is seeded as before and a second generator is
\* constructed for the same plan size (line 385).
NewRun ==
    /\ pc \in {"done", "raised"}
    /\ run = 1
    /\ prev' = Output
    /\ run' = 2
    /\ pos' = InitDraws
    /\ base_offset' = init_base_offset
    /\ unit_mode' = init_unit_mode
    /\ complexity_depth' = init_complexity_depth
    /\ rooms' = <<>> /\ walls' = <<>> /\ windows' = <<>> /\ dimensions' = <<>>
    /\ text_bboxes' = <<>> /\ doors' = <<>>
    /\ wall_id_counter' = FirstWallId
    /\ window_id_counter' = FirstWindowId
    /\ dim_id_counter' = FirstDimId
    /\ pc' = "constructed"
    /\ UNCHANGED <<tape, split_io, format_io, params>>

Next == GenerateLayout \/ AddWindows \/ AddDoors \/ AddSmartDimensions \/ NewRun

Spec == Init /\ [][Next]_vars

\* ------------------------------------------- the partitioner alone: SpecSplit
SplitSides == {100, 160, 161, 400, 600}

InitSplit ==
    /\ IdleRuns
    /\ tape \in Tapes
    /\ pos = 0
    /\ arg_rect \in {Rect(Margin, Margin, w, h) : w \in SplitSides, h \in SplitSides}
    /\ arg_depth \in 0..MaxDepth
    /\ ret_leaves = <<>>
    /\ pc = "split_call"
    /\ unit_mode = "mm"
    /\ FreshPlan /\ IdleFormat /\ IdleParams /\ IdleStyle

\* _recursive_split(arg_rect, depth=arg_depth)
RecursiveSplit ==
    /\ pc = "split_call"
    /\ LET sp == recursive_split(arg_rect, arg_depth, pos)
       IN  ret_leaves' = sp.leaves /\ pos' = sp.pos
    /\ pc' = "split_ret"
    /\ UNCHANGED <<tape, arg_rect, arg_depth, format_io, params, style, plan, runs>>

NextSplit == RecursiveSplit

SpecSplit == InitSplit /\ [][NextSplit]_vars

\* ------------------------------------------ the wall builder alone: SpecWalls
WallSides == {1, 2, 4, 5, 6, 10, 64, 160}
WallOrigins == {<<0, 0>>, <<150, 150>>}

\* two squares of side s that share an edge: b is right of a, or below it
Adjacent(o, s, side) ==
    LET a == Rect(o[1], o[2], s, s)
        b == IF side = "right" THEN Rect(o[1] + s, o[2], s, s) ELSE Rect(o[1], o[2] + s, s, s)
    IN  {<<a, b>>, <<b, a>>}

InitWalls ==
    /\ tape = ZeroTape
    /\ pos = 0
    /\ \E o \in WallOrigins, s \in WallSides, side \in {"right", "below"} :
          rooms \in Adjacent(o, s, side)
    /\ walls = <<>> /\ windows = <<>> /\ dimensions = <<>>
    /\ text_bboxes = <<>> /\ doors = <<>>
    /\ wall_id_counter = FirstWallId
    /\ window_id_counter = FirstWindowId
    /\ dim_id_counter = FirstDimId
    /\ pc = "rooms"
    /\ unit_mode = "mm"
    /\ IdleSplit /\ IdleFormat /\ IdleParams /\ IdleStyle /\ IdleRuns

\* lines 106-111: the wall builder over self.rooms
BuildWalls ==
    /\ pc = "rooms"
    /\ LET st == add_all_walls(WallState(walls, wall_id_counter), rooms, 1)
       IN  walls' = st.walls /\ wall_id_counter' = st.next_id
    /\ pc' = "walls"
    /\ UNCHANGED <<rng, split_io, format_io, params, style, runs, rooms, windows,
                   dimensions, text_bboxes, window_id_counter, dim_id_counter, doors>>

NextWalls == BuildWalls

SpecWalls == InitWalls /\ [][NextWalls]_vars

\* ---------------------------------------------- the formatter alone: SpecFormat
InitFormat ==
    /\ tape = ZeroTape
    /\ pos = 0
    /\ px_length \in 0..MaxPx
    /\ unit_mode \in UnitModes
    /\ ret_text = ""
    /\ pc = "format_call"
    /\ base_offset = MinOffset /\ complexity_depth = 0
    /\ FreshPlan /\ IdleSplit /\ IdleParams /\ IdleRuns

\* _format_value(px_length)
FormatValue ==
    /\ pc = "format_call"
    /\ ret_text' = format_value(px_length, unit_mode)
    /\ pc' = "format_ret"
    /\ UNCHANGED <<rng, split_io, px_length, params, style, plan, runs>>

NextFormat == FormatValue

SpecFormat == InitFormat /\ [][NextFormat]_vars

\* ==================================================================== claims
\* -------------------------------------------------------------------- C1
Area(r) == r.w * r.h

InsideRect(l, r) ==
    /\ l.w >= 0 /\ l.h >= 0
    /\ r.x <= l.x /\ l.x + l.w <= r.x + r.w
    /\ r.y <= l.y /\ l.y + l.h <= r.y + r.h

InteriorsMeet(a, b) ==
    /\ a.x < b.x + b.w /\ b.x < a.x + a.w
    /\ a.y < b.y + b.h /\ b.y < a.y + a.h

RECURSIVE SumAreas(_, _)
SumAreas(leaves, i) == IF i > Len(leaves) THEN 0 ELSE Area(leaves[i]) + SumAreas(leaves, i + 1)

\* C1: the leaves _recursive_split returns tile the rectangle it was given: each
\* leaf lies inside it, no two leaves overlap in their interiors, and the leaves'
\* areas add up to w*h (so no point of the rectangle is left uncovered).
C1_LeavesTile ==
    pc = "split_ret" =>
        /\ \A i \in 1..Len(ret_leaves) : InsideRect(ret_leaves[i], arg_rect)
        /\ \A i, j \in 1..Len(ret_leaves) :
              i < j => ~InteriorsMeet(ret_leaves[i], ret_leaves[j])
        /\ SumAreas(ret_leaves, 1) = Area(arg_rect)

\* a rectangle split twice or more, along both axes
C1_Witness ==
    /\ pc = "split_ret"
    /\ Len(ret_leaves) >= 4
    /\ \E i, j \in 1..Len(ret_leaves) :
          ret_leaves[i].x # ret_leaves[j].x /\ ret_leaves[i].y # ret_leaves[j].y

\* -------------------------------------------------------------------- C2
\* C2 as claimed: every leaf has width >= 160 and height >= 160, or was returned by
\* a call whose remaining depth was 0.
C2_MinSizeOrDepthZero ==
    pc = "split_ret" =>
        \A i \in 1..Len(ret_leaves) :
            (ret_leaves[i].w >= MinSize /\ ret_leaves[i].h >= MinSize) \/ ret_leaves[i].d = 0

\* the smallest side a split can leave: int(160 * 0.4)
MinSplitSide == Int04(MinSize)

\* C2 as amended: a leaf returned while depth remained has width < 160 or height
\* < 160 (the code stops at a rectangle that is already too small, it does not keep
\* the leaves above 160), and every leaf that a split produced has both sides >= 64.
C2_StopsWhenSmall ==
    pc = "split_ret" =>
        \A i \in 1..Len(ret_leaves) :
            /\ ret_leaves[i].d = 0 \/ ret_leaves[i].w < MinSize \/ ret_leaves[i].h < MinSize
            /\ Len(ret_leaves) > 1 =>
                  ret_leaves[i].w >= MinSplitSide /\ ret_leaves[i].h >= MinSplitSide

\* a split left a leaf below 160 with depth remaining, beside a leaf of depth 0
C2_Witness ==
    /\ pc = "split_ret"
    /\ \E i, j \in 1..Len(ret_leaves) :
          /\ ret_leaves[i].d > 0 /\ ret_leaves[i].d < arg_depth
          /\ ret_leaves[i].w < MinSize \/ ret_leaves[i].h < MinSize
          /\ ret_leaves[j].d = 0

\* -------------------------------------------------------------------- C3
\* the edge two adjacent rooms share, with its endpoints in the walls' order
CommonEdge(a, b) ==
    CASE a.x + a.w = b.x -> <<b.x, a.y, b.x, a.y + a.h>>
      [] b.x + b.w = a.x -> <<a.x, a.y, a.x, a.y + a.h>>
      [] a.y + a.h = b.y -> <<a.x, b.y, a.x + a.w, b.y>>
      [] OTHER           -> <<a.x, a.y, a.x + a.w, a.y>>

WallsAt(e) == {i \in 1..Len(walls) : walls[i].coords = e}

WindowsOn(id) == {k \in 1..Len(windows) : windows[k].wall_id = id}
DoorsOn(id) == {k \in 1..Len(doors) : doors[k].wall_id = id}

\* C4: no wall hosts both a window and a door, no wall is named by more than one
\* Window record (nor opened by more than one door), and a wall has has_opening
\* exactly when it hosts its one opening: none is added to a wall that has one.
C4_OneOpeningPerWall ==
    \A i \in 1..Len(walls) :
        /\ Cardinality(WindowsOn(walls[i].id)) + Cardinality(DoorsOn(walls[i].id)) <= 1
        /\ walls[i].has_opening <=> (WindowsOn(walls[i].id) # {} \/ DoorsOn(walls[i].id) # {})

\* add_doors has run on a plan with windows, and a room with a door has a window
\* on another of its edges
C4_Witness ==
    /\ pc \in {"doors", "done"}
    /\ windows # <<>>
    /\ \E d \in 1..Len(doors) : \E widx \in 0..3 : \E i \in 1..Len(walls) :
          /\ contains_mid(walls[i].coords, candidate_mid2(rooms[doors[d].room], widx))
          /\ WindowsOn(walls[i].id) # {}

\* -------------------------------------------------------------------- C5
\* the wall a dimension was drawn for: its wall, or its window's wall
OwnerOf(dim) ==
    IF dim.link_type = "wall_id" THEN dim.link_id
    ELSE windows[Only({k \in 1..Len(windows) : windows[k].id = dim.link_id})].wall_id

DimensionsOf(id) == {k \in 1..Len(dimensions) : OwnerOf(dimensions[k]) = id}

RuleCrosses(l, c) ==
    \/ /\ l[2] = l[4] /\ c[1] = c[3]
       /\ Min(l[1], l[3]) < c[1] /\ c[1] < Max(l[1], l[3])
       /\ Min(c[2], c[4]) < l[2] /\ l[2] < Max(c[2], c[4])
    \/ /\ l[1] = l[3] /\ c[2] = c[4]
       /\ Min(l[2], l[4]) < c[2] /\ c[2] < Max(l[2], l[4])
       /\ Min(c[1], c[3]) < l[1] /\ l[1] < Max(c[1], c[3])

\* C6: the line of a committed dimension crosses no wall but the wall it was drawn
\* for, under the perpendicular-intersection rule.
C6_DimensionsCrossNoWall ==
    \A k \in 1..Len(dimensions) : \A i \in 1..Len(walls) :
        walls[i].id # OwnerOf(dimensions[k]) =>
            ~RuleCrosses(dimensions[k].dim_line, walls[i].coords)

\* a finished plan of several rooms with dimensions on horizontal and vertical walls
C6_Witness ==
    /\ pc = "done"
    /\ Len(rooms) >= 3
    /\ \E k \in 1..Len(dimensions) : dimensions[k].dim_line[2] = dimensions[k].dim_line[4]
    /\ \E k \in 1..Len(dimensions) : dimensions[k].dim_line[1] = dimensions[k].dim_line[3]

\* -------------------------------------------------------------------- C7
\* box a, inflated by 2 units, overlaps box b (boxes doubled)
InflatedOverlap(a, b) ==
    /\ a[1] - 2 * Inflate < b[3] /\ a[3] + 2 * Inflate > b[1]
    /\ a[2] - 2 * Inflate < b[4] /\ a[4] + 2 * Inflate > b[2]

\* C7 as claimed: the boxes registered for two committed dimensions, inflated by 2
\* units, do not overlap, whatever the position mode and the measured extent.
C7_LabelsDoNotOverlap ==
    \A i, j \in 1..Len(text_bboxes) :
        i < j => ~InflatedOverlap(text_bboxes[j], text_bboxes[i])

\* -------------------------------------------------------------------- C8
\* C8 as claimed: the engine runs to completion without raising an error.
C8_NeverRaises == pc # "raised"

\* -------------------------------------------------------------------- C9
\* floor(mm / 25.4): the t with 25.4 t <= mm < 25.4 (t + 1)
FloorInches(mm) ==
    Only({t \in (mm \div 26)..(mm \div 25) : t * 254 <= mm * 10 /\ mm * 10 < (t + 1) * 254})

\* C9: with mm = 10 L, _format_value returns the decimal mm (mm), the mm and " mm"
\* (mm_suffix), floor(mm/25.4) and a double quote (inch), F'I" with F*12 + I =
\* floor(mm/25.4) and 0 <= I <= 11 (ft); 450 gives 4500, 4.5m and 14'9".
C9_FormatValue ==
    pc = "format_ret" =>
        LET mm == 10 * px_length
            total == FloorInches(mm)
        IN  /\ unit_mode = "mm" => ret_text = ToString(mm)
            /\ unit_mode = "mm_suffix" => ret_text = ToString(mm) \o " mm"
            /\ unit_mode = "inch" => ret_text = ToString(total) \o "\""
            /\ unit_mode = "ft" =>
                  \E I \in 0..11 :
                      /\ (total - I) % 12 = 0
                      /\ ret_text = ToString((total - I) \div 12) \o "'" \o ToString(I) \o "\""
            /\ px_length = 450 =>
                  /\ unit_mode = "mm" => ret_text = "4500"
                  /\ unit_mode = "m" => ret_text = "4.5m"
                  /\ unit_mode = "ft" => ret_text = "14'9\""

\* 450 pixel units formatted in feet and inches
C9_Witness == pc = "format_ret" /\ px_length = 450 /\ unit_mode = "ft" /\ ret_text = "14'9\""

SharedWalls == {i \in 1..Len(walls) : walls[i].is_shared}

\* C11 as claimed: a 900x900 plan of complexity depth 1 has, once generate_layout
\* has run, between 1 and 2 rooms, at least 4 walls and no wall flagged shared.
C11_DepthOneNoSharedWall ==
    (pc # "constructed" /\ width = 900 /\ height = 900 /\ complexity_depth = 1) =>
        /\ Len(rooms) >= 1 /\ Len(rooms) <= 2
        /\ Len(walls) >= 4
        /\ SharedWalls = {}

\* C11 as amended: the 600x600 rectangle is always cut once, across its height
\* (240 to 360 from the top), so the plan has exactly 2 rooms, one above the other,
\* and 7 walls, of which exactly one, the edge the two rooms have in common, is
\* flagged shared.
C11_DepthOneTwoRoomsOneSharedWall ==
    (pc # "constructed" /\ width = 900 /\ height = 900 /\ complexity_depth = 1) =>
        /\ Len(rooms) = 2
        /\ rooms[1].x = Margin /\ rooms[1].y = Margin /\ rooms[1].w = 900 - 2 * Margin
        /\ rooms[1].h >= Int04(900 - 2 * Margin) /\ rooms[1].h <= Int06(900 - 2 * Margin)
        /\ rooms[2] = Rect(Margin, Margin + rooms[1].h,
                           900 - 2 * Margin, 900 - 2 * Margin - rooms[1].h)
        /\ Len(walls) = 7
        /\ Cardinality(SharedWalls) = 1
        /\ \A i \in SharedWalls :
              walls[i].coords = <<Margin, rooms[2].y, 900 - Margin, rooms[2].y>>

\* generate_layout has run on a 900x900 plan of depth 1 and flagged a wall shared
C11_Witness ==
    /\ pc = "layout" /\ width = 900 /\ height = 900 /\ complexity_depth = 1
    /\ SharedWalls # {}

\* -------------------------------------------------------------------- C12
\* the extent of the axis-parallel segment c along its own direction
AxisRange(c) ==
    IF c[2] = c[4] THEN <<Min(c[1], c[3]), Max(c[1], c[3])>>
    ELSE <<Min(c[2], c[4]), Max(c[2], c[4])>>

\* the line l runs beside the wall at c: parallel to it, within its extent, at the
\* plan's offset (jitter included) from it
RunsBeside(l, c) ==
    LET gap == IF c[2] = c[4] THEN Abs(l[2] - c[2]) ELSE Abs(l[1] - c[1])
    IN  /\ (c[2] = c[4]) => (l[2] = l[4])
        /\ (c[2] # c[4]) => (l[1] = l[3] /\ l[2] # l[4])
        /\ AxisRange(c)[1] <= AxisRange(l)[1] /\ AxisRange(l)[2] <= AxisRange(c)[2]
        /\ base_offset - JitterRange <= gap /\ gap <= base_offset + JitterRange

\* the link of a chain segment or of a dimension
LinkOfSegment(s) == <<s[5], s[6]>>
LinkOf(d) == <<d.link_type, d.link_id>>

\* C12: every committed dimension carries one link, wall_id or window_id; a wall_id
\* is that of a wall of the plan beside which the dimension line runs, a window_id
\* that of a window of the plan whose host is the wall beside which the line runs
\* (the line spanning the window); and on a wall with a window the chain's three
\* segments are linked to the wall, the window and the wall in that order, the
\* dimensions committed for them carrying their segment's link in the same order.
C12_OneLinkToWallOrItsWindow ==
    /\ \A k \in 1..Len(dimensions) :
          LET d == dimensions[k]
          IN  /\ d.link_type \in {"wall_id", "window_id"}
              /\ d.link_type = "wall_id" =>
                    \E i \in 1..Len(walls) :
                        walls[i].id = d.link_id /\ RunsBeside(d.dim_line, walls[i].coords)
              /\ d.link_type = "window_id" =>
                    \E n \in 1..Len(windows) : \E i \in 1..Len(walls) :
                        /\ windows[n].id = d.link_id
                        /\ walls[i].id = windows[n].wall_id
                        /\ RunsBeside(d.dim_line, walls[i].coords)
                        /\ AxisRange(d.dim_line) = AxisRange(windows[n].coords)
    /\ \A i \in 1..Len(walls) :
          attached_window(walls[i]) # 0 =>
              LET win == windows[attached_window(walls[i])]
                  segs == chain_segments(walls[i], win)
                  own == {k \in 1..Len(dimensions) :
                             \/ LinkOf(dimensions[k]) = <<"wall_id", walls[i].id>>
                             \/ LinkOf(dimensions[k]) = <<"window_id", win.id>>}
              IN  /\ Len(segs) = 3
                  /\ LinkOfSegment(segs[1]) = <<"wall_id", walls[i].id>>
                  /\ LinkOfSegment(segs[2]) = <<"window_id", win.id>>
                  /\ LinkOfSegment(segs[3]) = <<"wall_id", walls[i].id>>
                  /\ AxisRange(segs[2]) = AxisRange(win.coords)
                  /\ AxisRange(segs[1])[1] = AxisRange(walls[i].coords)[1]
                  /\ AxisRange(segs[1])[2] = AxisRange(segs[2])[1]
                  /\ AxisRange(segs[3])[1] = AxisRange(segs[2])[2]
                  /\ AxisRange(segs[3])[2] = AxisRange(walls[i].coords)[2]
                  /\ \A k \in own :
                        \/ /\ AxisRange(dimensions[k].dim_line) = AxisRange(walls[i].coords)
                           /\ LinkOf(dimensions[k]) = <<"wall_id", walls[i].id>>
                           /\ own = {k}
                        \/ \E n \in 1..3 :
                              /\ AxisRange(dimensions[k].dim_line) = AxisRange(segs[n])
                              /\ LinkOf(dimensions[k]) = LinkOfSegment(segs[n])
                  /\ \A j, k \in own :
                        j < k => AxisRange(dimensions[j].dim_line)[2]
                                     <= AxisRange(dimensions[k].dim_line)[1]

\* a finished plan in which one wall's chain was committed whole: three dimensions
\* with consecutive identifiers linked to the wall, its window and the wall
C12_Witness ==
    /\ pc = "done"
    /\ \E k \in 1..Len(dimensions) :
          /\ k + 2 <= Len(dimensions)
          /\ dimensions[k].link_type = "wall_id"
          /\ dimensions[k + 1].link_type = "window_id"
          /\ dimensions[k + 2].link_type = "wall_id"
          /\ dimensions[k + 2].link_id = dimensions[k].link_id
          /\ \E n \in 1..Len(windows) :
                /\ windows[n].id = dimensions[k + 1].link_id
                /\ windows[n].wall_id = dimensions[k].link_id

\* -------------------------------------------------------------------- C13
\* the rooms the partitioner returned to generate_layout (raw_rooms)
RawRooms == as_rooms(ret_leaves)

\* the raw rooms that are not among the plan's rooms
Removed == {i \in 1..Len(RawRooms) : \A n \in 1..Len(rooms) : rooms[n] # RawRooms[i]}

\* four times the squared distance of r's centroid (x + w/2, y + h/2) from the
\* plan centre (width/2, height/2)
CentroidDistance4(r) ==
    (2 * r.x + r.w - width) * (2 * r.x + r.w - width)
    + (2 * r.y + r.h - height) * (2 * r.y + r.h - height)

\* C13 as claimed: when the partitioner returns more than 3 rooms, the rooms removed
\* are k rooms, 1 <= k <= max(1, floor(0.4 * count)), none of them with its centroid
\* nearer the plan centre than a room that is kept; when it returns 3 rooms or
\* fewer, no room is removed.
C13_CullsFarthestCentroids ==
    pc # "constructed" =>
        IF Len(RawRooms) > 3
        THEN /\ Cardinality(Removed) >= 1
             /\ Cardinality(Removed) <= Max(1, (4 * Len(RawRooms)) \div 10)
             /\ Len(rooms) = Len(RawRooms) - Cardinality(Removed)
             /\ \A i \in Removed : \A j \in (1..Len(RawRooms)) \ Removed :
                   CentroidDistance4(RawRooms[i]) >= CentroidDistance4(RawRooms[j])
        ELSE rooms = RawRooms

\* -------------------------------------------------------------------- C14
\* a call that splits its rectangle once: depth 1 and both sides >= 160
SplitsOnce ==
    /\ pc = "split_ret" /\ arg_depth = 1
    /\ arg_rect.w >= MinSize /\ arg_rect.h >= MinSize

\* the two leaves are the left and right parts of the rectangle, of its height
CutsWidth ==
    /\ Len(ret_leaves) = 2
    /\ ret_leaves[1].x = arg_rect.x /\ ret_leaves[1].y = arg_rect.y
    /\ ret_leaves[2].x = arg_rect.x + ret_leaves[1].w /\ ret_leaves[2].y = arg_rect.y
    /\ ret_leaves[1].w + ret_leaves[2].w = arg_rect.w
    /\ ret_leaves[1].h = arg_rect.h /\ ret_leaves[2].h = arg_rect.h

\* the two leaves are the upper and lower parts of the rectangle, of its width
CutsHeight ==
    /\ Len(ret_leaves) = 2
    /\ ret_leaves[1].x = arg_rect.x /\ ret_leaves[1].y = arg_rect.y
    /\ ret_leaves[2].x = arg_rect.x /\ ret_leaves[2].y = arg_rect.y + ret_leaves[1].h
    /\ ret_leaves[1].h + ret_leaves[2].h = arg_rect.h
    /\ ret_leaves[1].w = arg_rect.w /\ ret_leaves[2].w = arg_rect.w

\* C14 as claimed: a split cuts the longer axis at a position between 40% and 60%
\* of that axis's length, and a square is cut across its width.
C14_CutsLongerAxisTiesWidth ==
    SplitsOnce =>
        IF arg_rect.w >= arg_rect.h
        THEN /\ CutsWidth
             /\ 4 * arg_rect.w <= 10 * ret_leaves[1].w
             /\ 10 * ret_leaves[1].w <= 6 * arg_rect.w
        ELSE /\ CutsHeight
             /\ 4 * arg_rect.h <= 10 * ret_leaves[1].h
             /\ 10 * ret_leaves[1].h <= 6 * arg_rect.h

\* C14 as amended: a split cuts the width when it is strictly the longer side and
\* the height otherwise (a square is cut across its height, into upper and lower
\* parts of equal width), at a whole position p with floor(0.4 L) <= p <= floor(0.6 L)
\* for the cut side's length L: p may lie below 40% of L by less than one unit.
C14_CutsLongerAxisTiesHeight ==
    SplitsOnce =>
        IF arg_rect.w > arg_rect.h
        THEN /\ CutsWidth
             /\ 10 * (ret_leaves[1].w + 1) > 4 * arg_rect.w
             /\ 10 * ret_leaves[1].w <= 6 * arg_rect.w
        ELSE /\ CutsHeight
             /\ 10 * (ret_leaves[1].h + 1) > 4 * arg_rect.h
             /\ 10 * ret_leaves[1].h <= 6 * arg_rect.h

\* a square was split once, into an upper and a lower part of its width
C14_Witness ==
    /\ SplitsOnce
    /\ Len(ret_leaves) = 2
    /\ arg_rect.w = arg_rect.h
    /\ ret_leaves[1].w = arg_rect.w /\ ret_leaves[1].h < arg_rect.h

====
